---------------------------- MODULE Spec2Model ----------------------------
(***************************************************************************)
(* Kernel evaluation engine and dense solver of Neural-Splines             *)
(* (src/common/falkon_kernels.py, src/fit_n_spline_falkon.py).             *)
(*                                                                         *)
(* Numbers.  Tensor entries are modelled exactly, as quotients of          *)
(* polynomials in pi and e with integer coefficients.  The point sets are  *)
(* axis-aligned integer vectors, so every norm is an integer, every        *)
(* cosine is -1, 0 or 1 and every angle is 0, pi/2 or pi: on this domain   *)
(* sqrt, acos, sin, cos, atan2, pow and exp have exact values and are      *)
(* tabulated below.  An operator applied outside its table has no value    *)
(* (an empty CHOOSE), so a run cannot leave the domain unnoticed.          *)
(*                                                                         *)
(* Rounding.  The one floating-point effect kept is the one the clamp      *)
(* exists for: a quotient whose exact value is 1 or -1 may come out one    *)
(* ulp beyond it.  A number carries the flag ex = 1 when it did; which of  *)
(* the two outcomes a division produces is an input (rnd) of the           *)
(* operation.  Rounding towards zero stays inside every function's domain  *)
(* and inside the tolerance, and is identified with the exact value.       *)
(***************************************************************************)
EXTENDS Integers, Sequences, FiniteSets, TLC

(***************************************************************************)
(* Bounds of the model.                                                    *)
(***************************************************************************)
\* longest vector norm among the points
MaxNorm == 2
\* most points (rows) in a point set handed to a kernel evaluation
MaxPts == 1
\* most training points handed to DirectKernelSolver.fit
MaxTrain == 2
\* most points of a set X of which direct_kernel(X, X) is taken
MaxSelf == 2
\* most points of the grid eval_grid evaluates
MaxGrid == 3
\* largest nchunks given to eval_grid
MaxChunks == 4

(***************************************************************************)
(* Polynomials in pi and e: finite sets of terms c * pi^pi * e^e with      *)
(* distinct monomials and non-zero integer coefficients.                   *)
(***************************************************************************)
PInt(k) == IF k = 0 THEN {} ELSE {[pi |-> 0, e |-> 0, c |-> k]}

PCoef(P, i, j) ==
    LET S == {t \in P : t.pi = i /\ t.e = j}
    IN  IF S = {} THEN 0 ELSE (CHOOSE t \in S : TRUE).c

PAdd(P, Q) ==
    {t \in {[pi |-> m[1], e |-> m[2],
             c |-> PCoef(P, m[1], m[2]) + PCoef(Q, m[1], m[2])] :
            m \in {<<t.pi, t.e>> : t \in P \cup Q}} : t.c # 0}

PScale(P, k) == IF k = 0 THEN {} ELSE {[pi |-> t.pi, e |-> t.e, c |-> k * t.c] : t \in P}

PShift(P, i, j) == {[pi |-> t.pi + i, e |-> t.e + j, c |-> t.c] : t \in P}

RECURSIVE SumProd(_)
SumProd(S) ==
    IF S = {} THEN 0
    ELSE LET x == CHOOSE x \in S : TRUE
         IN  x[1].c * x[2].c + SumProd(S \ {x})

\* the terms of a product, collected by monomial
Collect(pairs, M) ==
    {t \in {[pi |-> m[1], e |-> m[2],
             c |-> SumProd({x \in pairs : /\ x[1].pi + x[2].pi = m[1]
                                          /\ x[1].e + x[2].e = m[2]})] :
            m \in M} : t.c # 0}

PMul(P, Q) ==
    IF P = {} \/ Q = {} THEN {}
    ELSE IF Cardinality(Q) = 1
    THEN {[pi |-> t.pi + u.pi, e |-> t.e + u.e, c |-> t.c * u.c] : t \in P, u \in Q}
    ELSE IF Cardinality(P) = 1
    THEN {[pi |-> t.pi + u.pi, e |-> t.e + u.e, c |-> t.c * u.c] : t \in P, u \in Q}
    ELSE Collect(P \X Q, {<<t.pi + u.pi, t.e + u.e>> : t \in P, u \in Q})

Abs(k) == IF k < 0 THEN -k ELSE k

RECURSIVE GCD(_, _)
GCD(a, b) == IF b = 0 THEN a ELSE GCD(b, a % b)

RECURSIVE Content(_)
Content(P) ==
    IF P = {} THEN 0
    ELSE LET t == CHOOSE t \in P : TRUE
         IN  GCD(Abs(t.c), Content(P \ {t}))

PDivInt(P, g) == {[pi |-> t.pi, e |-> t.e, c |-> t.c \div g] : t \in P}

(***************************************************************************)
(* Numbers: n / d with n, d polynomials, the rounding flag ex and the      *)
(* not-a-number flag nan.  Mk brings a quotient with a one-term            *)
(* denominator to its unique lowest form, so equal numbers of that shape   *)
(* are equal records; NumEq compares any two numbers by cross              *)
(* multiplication.                                                         *)
(***************************************************************************)
NaN == [n |-> {}, d |-> {}, ex |-> 0, nan |-> TRUE]

\* n / (c * pi^i * e^j), t being the term of the denominator, in lowest terms
MkOver(n, t) ==
    LET n1 == PShift(n, -t.pi, -t.e)
        g  == GCD(Content(n1), Abs(t.c))
        s  == IF t.c < 0 THEN -g ELSE g
    IN  [n |-> PDivInt(n1, s), d |-> PInt(t.c \div s), ex |-> 0, nan |-> FALSE]

\* the least exponents of pi and of e among the terms of P
MinPi(P) == CHOOSE i \in {t.pi : t \in P} : \A t \in P : i <= t.pi
MinE(P) == CHOOSE j \in {t.e : t \in P} : \A t \in P : j <= t.e

\* n / d with the common integer factor g and the common monomial removed
Reduced(n, d, g) ==
    [n |-> PDivInt(PShift(n, -MinPi(n \cup d), -MinE(n \cup d)), g),
     d |-> PDivInt(PShift(d, -MinPi(n \cup d), -MinE(n \cup d)), g),
     ex |-> 0, nan |-> FALSE]

Mk(n, d) ==
    IF d = {} THEN NaN
    ELSE IF n = {} THEN [n |-> {}, d |-> PInt(1), ex |-> 0, nan |-> FALSE]
    ELSE IF Cardinality(d) = 1
         THEN MkOver(n, CHOOSE t \in d : TRUE)
         ELSE Reduced(n, d, GCD(Content(n), Content(d)))

NInt(k) == Mk(PInt(k), PInt(1))
NPi == Mk({[pi |-> 1, e |-> 0, c |-> 1]}, PInt(1))

\* a polynomial P is MonoC(P) * pi^MinPi(P) * e^MinE(P) * Prim(P), with the
\* leading coefficient of Prim(P) positive and its coefficients coprime
Lead(P) == CHOOSE t \in P : \A u \in P : u.pi < t.pi \/ (u.pi = t.pi /\ u.e <= t.e)
MonoC(P) == IF Lead(P).c < 0 THEN -Content(P) ELSE Content(P)
Prim(P) == PDivInt(PShift(P, -MinPi(P), -MinE(P)), MonoC(P))

LCM(a, b) == (a \div GCD(a, b)) * b
Max(a, b) == IF a >= b THEN a ELSE b

\* the numerator of x over the denominator L * pi^mp * e^me * Prim(x.d)
Scaled(x, L, mp, me) ==
    PScale(PShift(x.n, mp - MinPi(x.d), me - MinE(x.d)), L \div MonoC(x.d))

\* a + b for denominators with the same primitive part
AddOver(a, b, L, mp, me) ==
    Mk(PAdd(Scaled(a, L, mp, me), Scaled(b, L, mp, me)),
       PScale(PShift(Prim(a.d), mp, me), L))

NAdd(a, b) ==
    IF a.nan \/ b.nan THEN NaN
    ELSE IF a.d = b.d THEN Mk(PAdd(a.n, b.n), a.d)
    ELSE IF Prim(a.d) = Prim(b.d)
    THEN AddOver(a, b, LCM(Abs(MonoC(a.d)), Abs(MonoC(b.d))),
                 Max(MinPi(a.d), MinPi(b.d)), Max(MinE(a.d), MinE(b.d)))
    ELSE Mk(PAdd(PMul(a.n, b.d), PMul(b.n, a.d)), PMul(a.d, b.d))
NNeg(a) == IF a.nan THEN NaN ELSE Mk(PScale(a.n, -1), a.d)
NSub(a, b) == NAdd(a, NNeg(b))
NMul(a, b) == IF a.nan \/ b.nan THEN NaN ELSE Mk(PMul(a.n, b.n), PMul(a.d, b.d))
\* a quotient by zero is not finite; the model keeps one non-finite value
NDiv(a, b) == IF a.nan \/ b.nan \/ b.n = {} THEN NaN ELSE Mk(PMul(a.n, b.d), PMul(a.d, b.n))

NumEq(a, b) == /\ a.nan = b.nan
               /\ ~a.nan => IF a.d = b.d THEN a.n = b.n
                             ELSE PMul(a.n, b.d) = PMul(b.n, a.d)

\* a rational number k / m with m > 0, and its parts
IsRat(a) == /\ ~a.nan
            /\ a.n \subseteq {t \in a.n : t.pi = 0 /\ t.e = 0}
            /\ a.d \subseteq {t \in a.d : t.pi = 0 /\ t.e = 0}
RatN(a) == PCoef(a.n, 0, 0)
RatD(a) == PCoef(a.d, 0, 0)
IsInt(a) == IsRat(a) /\ RatD(a) = 1
\* the rational number a, which a must be
Rat(a) == CHOOSE r \in {[n |-> RatN(a), d |-> RatD(a)]} : IsRat(a)

\* floating-point division: a quotient of magnitude exactly one may come out
\* one ulp beyond it (rnd = 1)
FDiv(a, b, rnd) ==
    LET q == NDiv(a, b)
    IN  IF IsRat(q) /\ Abs(RatN(q)) = RatD(q) THEN [q EXCEPT !.ex = rnd] ELSE q

\* torch.clamp(a, lo, hi) for integers lo <= hi; NaN stays NaN
Clamp(a, lo, hi) ==
    IF a.nan THEN a
    ELSE LET r == Rat(a)
         IN  IF r.n > hi * r.d \/ (r.n = hi * r.d /\ r.n > 0 /\ a.ex = 1) THEN NInt(hi)
             ELSE IF r.n < lo * r.d \/ (r.n = lo * r.d /\ r.n < 0 /\ a.ex = 1) THEN NInt(lo)
             ELSE a

\* a is inside the domain [-1, 1] of the inverse cosine
InAcosDomain(a) == /\ IsRat(a)
                   /\ Abs(RatN(a)) <= RatD(a)
                   /\ a.ex = 0

NHalfPi == Mk({[pi |-> 1, e |-> 0, c |-> 1]}, PInt(2))
NQuarterPi == Mk({[pi |-> 1, e |-> 0, c |-> 1]}, PInt(4))

\* acos on {-1, 0, 1}; NaN outside [-1, 1]
Acos(a) ==
    IF a.nan THEN NaN
    ELSE LET r == Rat(a)
         IN  IF Abs(r.n) > r.d \/ a.ex = 1 THEN NaN
             ELSE CHOOSE t \in {NInt(0), NHalfPi, NPi} :
                     \/ r.n = r.d /\ t = NInt(0)
                     \/ r.n = 0 /\ t = NHalfPi
                     \/ r.n = -r.d /\ t = NPi

\* sin and cos on {0, pi/2, pi}
Sin(a) ==
    IF a.nan THEN NaN
    ELSE CHOOSE s \in {NInt(0), NInt(1)} :
            \/ a \in {NInt(0), NPi} /\ s = NInt(0)
            \/ a = NHalfPi /\ s = NInt(1)

Cos(a) ==
    IF a.nan THEN NaN
    ELSE CHOOSE s \in {NInt(-1), NInt(0), NInt(1)} :
            \/ a = NInt(0) /\ s = NInt(1)
            \/ a = NHalfPi /\ s = NInt(0)
            \/ a = NPi /\ s = NInt(-1)

\* integer square root of a perfect square
ISqrt(s) == CHOOSE r \in 0..s : r * r = s

\* atan2(sqrt(s1), sqrt(s2)) for integers s1, s2 >= 0 with s1 = 0, s2 = 0 or s1 = s2
Atan2Sqrt(s1, s2) ==
    CHOOSE t \in {NInt(0), NQuarterPi, NHalfPi} :
        \/ s1 = 0 /\ t = NInt(0)
        \/ s1 > 0 /\ s2 = 0 /\ t = NHalfPi
        \/ s1 > 0 /\ s1 = s2 /\ t = NQuarterPi

\* a^k for an integer k >= 0 (pow with an integer-valued exponent)
RECURSIVE NPowInt(_, _)
NPowInt(a, k) == IF k = 0 THEN NInt(1) ELSE NMul(a, NPowInt(a, k - 1))
Pow(a, g) == IF a.nan \/ g.nan THEN NaN
             ELSE NPowInt(a, CHOOSE k \in 0..RatN(g) : IsInt(g) /\ k = RatN(g))

\* e^a for an integer a
Exp(a) == IF a.nan THEN NaN
          ELSE Mk({[pi |-> 0, c |-> 1,
                    e |-> CHOOSE k \in {RatN(a)} : IsInt(a)]}, PInt(1))

(***************************************************************************)
(* Points and point sets (tensors of shape [s, d]).                        *)
(***************************************************************************)
RECURSIVE SeqSum(_)
SeqSum(s) == IF s = <<>> THEN 0 ELSE Head(s) + SeqSum(Tail(s))

RECURSIVE NumSum(_)
NumSum(s) == IF s = <<>> THEN NInt(0) ELSE NAdd(Head(s), NumSum(Tail(s)))


Axis(d, k, c) == [i \in 1..d |-> IF i = k THEN c ELSE 0]

\* the feature dimensions the point sets take
FeatureDims == {1, 2, 3}

\* the feature dimension of the operands of a product
BlockDims == {2}

\* axis-aligned points of dimension d: every norm up to MaxNorm, and the
\* angles 0, pi/2 and pi between them
Points(d) == {Axis(d, 1, c) : c \in 1..MaxNorm} \cup {Axis(d, 1, -1)}
             \cup (IF d >= 2 THEN {Axis(d, 2, 1)} ELSE {})

\* the position of a point in the enumeration of Points(d)
Rank(p) == p[1] + (MaxNorm + 1) * SeqSum(Tail(p))

\* tensors of 1..m distinct rows, in the order of their ranks
PointSets(d, m) ==
    {s \in UNION {[1..k -> Points(d)] : k \in 1..m} :
        \A i \in 1..Len(s), j \in 1..Len(s) : i < j => Rank(s[i]) < Rank(s[j])}

AllPointSets(m) == UNION {PointSets(d, m) : d \in FeatureDims}

Dim(X) == Len(X[1])

\* X.T for a tensor of shape [s, d]
Transpose(X) == [k \in 1..Dim(X) |-> [j \in 1..Len(X) |-> X[j][k]]]

\* torch.norm(p, dim=-1) of one point
Norm(p) == ISqrt(SeqSum([k \in 1..Len(p) |-> p[k] * p[k]]))

\* (x * xp).sum(-1) for one pair of rows; a last dimension of size 1 is
\* broadcast over the other
BDot(p, q) ==
    SeqSum([k \in 1..Max(Len(p), Len(q)) |->
              p[IF Len(p) = 1 THEN 1 ELSE k] * q[IF Len(q) = 1 THEN 1 ELSE k]])

\* whether x * xp broadcasts, for x of shape [s1, 1, d1] and xp of shape [1, s2, d2]
Broadcasts(x, xp) == Dim(x) = Dim(xp) \/ Dim(x) = 1 \/ Dim(xp) = 1

(***************************************************************************)
(* Hyperparameter objects and extract_float.                               *)
(***************************************************************************)
VarianceVals == {0, 1}
AlphaVals == {-1, 1}
GammaVals == {1, 2}

ScalarKinds == {"float", "tensor0"}
PyObj(vals) == [kind : ScalarKinds, val : vals]
               \cup {[kind |-> "tensorN", val |-> 0], [kind |-> "list", val |-> 0]}

PyFloat(v) == [kind |-> "float", val |-> v]

extract_float(d) ==
    IF d.kind \in {"tensor0", "tensorN"}
    THEN IF d.kind = "tensor0" THEN [err |-> "none", val |-> d.val]
         ELSE [err |-> "ValueError", val |-> 0]
    ELSE IF d.kind = "float" THEN [err |-> "none", val |-> d.val]
         ELSE [err |-> "TypeError", val |-> 0]

(***************************************************************************)
(* The reference dense kernels.  Each returns the tensor the code returns: *)
(* a sequence of rows.                                                     *)
(***************************************************************************)
\* cos_alpha_x of k_arccos, k_ntk and k_spherical_laplace for one pair of rows
cos_alpha_x(p, q, rnd) ==
    Clamp(FDiv(NInt(BDot(p, q)), NInt(Norm(p) * Norm(q)), rnd), -1, 1)

\* k_arccos with norm_x * norm_x in the place of norm_x * norm_xp
k_arccos_ij_rownorm(p, q, rnd) ==
    LET norm_x_xp == NInt(Norm(p) * Norm(p))
        cosv == cos_alpha_x(p, q, rnd)
        alpha_x == Acos(cosv)
        sin_alpha_x == Sin(alpha_x)
        K == NMul(norm_x_xp, NAdd(sin_alpha_x, NMul(NSub(NPi, alpha_x), cosv)))
    IN  NDiv(K, NPi)

k_arccos_ij(p, q, rnd) ==
    LET norm_x_xp == NInt(Norm(p) * Norm(q))
        cosv == cos_alpha_x(p, q, rnd)
        alpha_x == Acos(cosv)
        sin_alpha_x == Sin(alpha_x)
        K == NMul(norm_x_xp, NAdd(sin_alpha_x, NMul(NSub(NPi, alpha_x), cosv)))
    IN  NDiv(K, NPi)

k_arccos(x, xp, rnd) ==
    [i \in 1..Len(x) |-> [j \in 1..Len(xp) |-> k_arccos_ij(x[i], xp[j], rnd)]]

k_ntk_ij(p, q, variance, rnd) ==
    LET norm_x_xp == NInt(Norm(p) * Norm(q))
        cosv == cos_alpha_x(p, q, rnd)
        alpha_x == Acos(cosv)
        sin_alpha_x == Sin(alpha_x)
        K == NMul(norm_x_xp,
                  NAdd(sin_alpha_x,
                       NMul(NMul(NAdd(NInt(1), NInt(variance)), NSub(NPi, alpha_x)), cosv)))
    IN  NDiv(K, NPi)

k_ntk(x, xp, variance, rnd) ==
    [i \in 1..Len(x) |-> [j \in 1..Len(xp) |-> k_ntk_ij(x[i], xp[j], variance, rnd)]]

\* torch.exp(alpha * torch.pow(1.0 - cos_alpha_x, gamma)) for one pair of rows
laplace_exp_ij(p, q, gamma, alpha, rnd) ==
    Exp(NMul(NInt(alpha), Pow(NSub(NInt(1), cos_alpha_x(p, q, rnd)), NInt(gamma))))

\* norm_x_xp * torch.exp(...).squeeze(-1): the exponential has shape [s1, s2];
\* squeeze(-1) removes its last dimension when s2 = 1, and the product of
\* norm_x_xp [s1, 1] with the resulting [s1] vector broadcasts to [s1, s1]
k_spherical_laplace(x, xp, gamma, alpha, rnd) ==
    IF Len(xp) = 1
    THEN [i \in 1..Len(x) |-> [j \in 1..Len(x) |->
            NMul(NInt(Norm(x[i]) * Norm(xp[1])),
                 laplace_exp_ij(x[j], xp[1], gamma, alpha, rnd))]]
    ELSE [i \in 1..Len(x) |-> [j \in 1..Len(xp) |->
            NMul(NInt(Norm(x[i]) * Norm(xp[j])),
                 laplace_exp_ij(x[i], xp[j], gamma, alpha, rnd))]]


(***************************************************************************)
(* Kernel objects.  A kernel is a record of its tag and hyperparameters;   *)
(* the fields a variant does not have stay at their NoKernel values.       *)
(***************************************************************************)
NoKernel == [tag |-> "None", variance |-> PyFloat(0), alpha |-> 0, gamma |-> 0]

ArcCosineKernel_init ==
    [err |-> "none", k |-> [NoKernel EXCEPT !.tag = "ArcCosine"]]

\* self.variance = variance: the argument is stored as it is
NeuralTangentKernel_init(variance) ==
    [err |-> "none", k |-> [NoKernel EXCEPT !.tag = "NeuralTangent", !.variance = variance]]

LaplaceKernelSphere_init(alpha, gamma) ==
    LET a == extract_float(alpha)
        g == extract_float(gamma)
    IN  IF a.err # "none" THEN [err |-> a.err, k |-> NoKernel]
        ELSE IF g.err # "none" THEN [err |-> g.err, k |-> NoKernel]
        ELSE [err |-> "none",
              k |-> [NoKernel EXCEPT !.tag = "LaplaceSphere", !.alpha = a.val, !.gamma = g.val]]


\* the hyperparameters a kernel object holds, as stored
HeldHyper(k) ==
    IF k.tag = "NeuralTangent" THEN {k.variance}
    ELSE IF k.tag = "LaplaceSphere" THEN {PyFloat(k.alpha), PyFloat(k.gamma)}
    ELSE {}

\* float(self.variance) and torch.tensor([self.variance]) need a single number
VarianceIsScalar(k) == k.variance.kind \in ScalarKinds

ArcCosine_direct_kernel(X1, X2, rnd) == k_arccos(X1, X2, rnd)

\* a direct_kernel that calls k_ntk and leaves the variance at its default
NeuralTangent_direct_kernel_default(k, X1, X2, rnd) == k_ntk(X1, X2, 1, rnd)

NeuralTangent_direct_kernel(k, X1, X2, rnd) == k_arccos(X1, X2, rnd)

LaplaceSphere_direct_kernel(k, X1, X2, rnd) == k_spherical_laplace(X1, X2, k.gamma, k.alpha, rnd)

\* kernel.direct_kernel(X1, X2), for operands that broadcast
direct_kernel(k, X1, X2, rnd) ==
    CASE k.tag = "ArcCosine" -> ArcCosine_direct_kernel(X1, X2, rnd)
      [] k.tag = "NeuralTangent" -> NeuralTangent_direct_kernel(k, X1, X2, rnd)
      [] k.tag = "LaplaceSphere" -> LaplaceSphere_direct_kernel(k, X1, X2, rnd)

\* the arguments direct_kernel hands to torch.acos
direct_acos_args(k, X1, X2, rnd) ==
    IF k.tag = "LaplaceSphere" THEN {}
    ELSE {cos_alpha_x(X1[i], X2[j], rnd) : i \in 1..Len(X1), j \in 1..Len(X2)}

(***************************************************************************)
(* Matrices and vectors of numbers.                                        *)
(***************************************************************************)
Rows(A) == Len(A)
Cols(A) == Len(A[1])
Fill(r, c, k) == [i \in 1..r |-> [j \in 1..c |-> NInt(k)]]
Entries(A) == {A[i][j] : i \in 1..Rows(A), j \in 1..Cols(A)}

\* A @ v for a matrix of numbers and a vector of numbers of length Cols(A)
MatVec(A, v) ==
    [i \in 1..Rows(A) |-> NumSum([j \in 1..Cols(A) |-> NMul(A[i][j], v[j])])]

NumVec(v) == [j \in 1..Len(v) |-> NInt(v[j])]

VecEq(a, b) == /\ Len(a) = Len(b)
               /\ \A i \in 1..Len(a) : NumEq(a[i], b[i])

(***************************************************************************)
(* The symbolic path: the formula each _keops_mmv_impl hands to keops_mmv, *)
(* evaluated for one pair (x_i, y_j), without the factor v.                *)
(***************************************************************************)
\* (Normalize(X) | Normalize(Y))
keops_cos(p, q, rnd) == FDiv(NInt(BDot(p, q)), NInt(Norm(p) * Norm(q)), rnd)

ArcCosine_formula(p, q, rnd) ==
    LET norm_xy == NInt(Norm(p) * Norm(q))
        cos_theta == keops_cos(p, q, rnd)
        theta == Acos(cos_theta)
        j1 == NAdd(Sin(theta), NMul(NSub(NPi, theta), cos_theta))
    IN  NMul(NDiv(norm_xy, NPi), j1)

\* two * Atan2(Norm2(Norm2(Y) * X - Norm2(X) * Y), Norm2(Norm2(Y) * X + Norm2(X) * Y))
stable_angle(p, q) ==
    LET nx == Norm(p)
        ny == Norm(q)
        arg1 == SeqSum([k \in 1..Len(p) |-> (ny * p[k] - nx * q[k]) * (ny * p[k] - nx * q[k])])
        arg2 == SeqSum([k \in 1..Len(p) |-> (ny * p[k] + nx * q[k]) * (ny * p[k] + nx * q[k])])
    IN  NMul(NInt(2), Atan2Sqrt(arg1, arg2))

NeuralTangent_formula(k, p, q) ==
    LET theta == stable_angle(p, q)
        norm_xy == NInt(Norm(p) * Norm(q))
        j01 == NMul(norm_xy,
                    NAdd(Sin(theta),
                         NMul(NMul(NAdd(NInt(1), NInt(k.variance.val)), NSub(NPi, theta)),
                              Cos(theta))))
    IN  NDiv(j01, NPi)

LaplaceSphere_formula(k, p, q, rnd) ==
    NMul(NInt(Norm(p) * Norm(q)),
         Exp(NMul(NInt(k.alpha),
                  Pow(NSub(NInt(1), Clamp(keops_cos(p, q, rnd), -1, 1)), NInt(k.gamma)))))

keops_formula(k, p, q, rnd) ==
    CASE k.tag = "ArcCosine" -> ArcCosine_formula(p, q, rnd)
      [] k.tag = "NeuralTangent" -> NeuralTangent_formula(k, p, q)
      [] k.tag = "LaplaceSphere" -> LaplaceSphere_formula(k, p, q, rnd)

\* the arguments the formula hands to Acos
keops_acos_args(k, X1, X2, rnd) ==
    IF k.tag = "ArcCosine"
    THEN {keops_cos(X1[i], X2[j], rnd) : i \in 1..Len(X1), j \in 1..Len(X2)}
    ELSE {}

\* keops_mmv: the sum over j of formula(x_i, y_j) * v_j
keops_mmv(k, X1, X2, v, rnd) ==
    MatVec([i \in 1..Len(X1) |-> [j \in 1..Len(X2) |-> keops_formula(k, X1[i], X2[j], rnd)]],
           NumVec(v))

\* _keops_mmv_impl; the variance is wrapped by torch.tensor([self.variance])
keops_mmv_impl(k, X1, X2, v, rnd) ==
    IF k.tag = "NeuralTangent" /\ ~VarianceIsScalar(k)
    THEN [impl |-> "keops", err |-> "ValueError", ret |-> <<>>, acos |-> {}]
    ELSE [impl |-> "keops", err |-> "none", ret |-> keops_mmv(k, X1, X2, v, rnd),
          acos |-> keops_acos_args(k, X1, X2, rnd)]

(***************************************************************************)
(* The staged path: _prepare, _apply, _finalize and the sparse entry       *)
(* points.  _apply receives X2 transposed, of shape [d, M].                *)
(***************************************************************************)
NoAux == [n1 |-> <<>>, n2 |-> <<>>]

\* [torch.norm(X1, dim=-1).unsqueeze(1), torch.norm(X2, dim=-1).unsqueeze(0)],
\* or [] for NeuralTangentKernel
prepare(k, X1, X2) ==
    IF k.tag = "NeuralTangent" THEN NoAux
    ELSE [n1 |-> [i \in 1..Len(X1) |-> Norm(X1[i])],
          n2 |-> [j \in 1..Len(X2) |-> Norm(X2[j])]]

\* out.addmm_(X1, X2T): out = out + X1 @ X2T
addmm(out, X1, X2T) ==
    [i \in 1..Rows(out) |-> [j \in 1..Cols(out) |->
        NAdd(out[i][j], NInt(SeqSum([c \in 1..Dim(X1) |-> X1[i][c] * X2T[c][j]])))]]

\* threads = (16, 16)
ThreadsPerDim == 16

\* blocks = tuple((dims[i] + threads[i] - 1) // threads[i] for i in range(2))
LaunchBlocks(n) == (n + ThreadsPerDim - 1) \div ThreadsPerDim

\* kernel(threads, blocks, args) for dims = (N, M): the first argument of a
\* cupy RawKernel call is the grid and the second the block
Launch(N, M) ==
    [grid |-> <<ThreadsPerDim, ThreadsPerDim>>, block |-> <<LaunchBlocks(N), LaunchBlocks(M)>>]

\* kernel(threads, blocks, args): cupy takes the grid first and the block
\* second, so the launch has a grid of threads = (16, 16) blocks, each of
\* blocks = (LaunchBlocks(N), LaunchBlocks(M)) threads.  The set of global
\* indices (I, J) = (blockIdx * blockDim + threadIdx) of the launch.
LaunchIndices(N, M) ==
    {<<bx * Launch(N, M).block[1] + tx, by * Launch(N, M).block[2] + ty>> :
        bx \in 0..(Launch(N, M).grid[1] - 1), tx \in 0..(Launch(N, M).block[1] - 1),
        by \in 0..(Launch(N, M).grid[2] - 1), ty \in 0..(Launch(N, M).block[2] - 1)}

\* the value one thread of stable_kernel computes for rows x1[I], x2[J]
stable_kernel_K(p, q, variance) ==
    LET angle == stable_angle(p, q)
        norm_xy == NInt(Norm(p) * Norm(q))
        opv == NAdd(NInt(1), NInt(variance))
    IN  NDiv(NMul(norm_xy, NAdd(Sin(angle), NMul(NMul(opv, NSub(NPi, angle)), Cos(angle)))),
             NPi)

\* the launch of stable_kernel: thread (I, J) returns when I >= N or J >= M
\* and writes out[I * M + J] otherwise
stable_kernel(x1, x2, out, variance) ==
    LET N == Len(x1)
        M == Len(x2)
        T == LaunchIndices(N, M)
    IN  [i \in 1..Rows(out) |-> [j \in 1..Cols(out) |->
            IF <<i - 1, j - 1>> \in T /\ i - 1 < N /\ j - 1 < M
            THEN stable_kernel_K(x1[i], x2[j], variance)
            ELSE out[i][j]]]

ArcCosine_apply(X1, X2T, out) == [err |-> "none", out |-> addmm(out, X1, X2T)]

LaplaceSphere_apply(X1, X2T, out) == [err |-> "none", out |-> addmm(out, X1, X2T)]

\* import cupy and the dlpack hand-over need the device capability (cupy
\* installed, operands on a CUDA device); float(self.variance) needs a number
NeuralTangent_apply(k, X1, X2T, out, device) ==
    IF ~device THEN [err |-> "ImportError", out |-> out]
    ELSE IF ~VarianceIsScalar(k)
         THEN [err |-> IF k.variance.kind = "list" THEN "TypeError" ELSE "ValueError",
               out |-> out]
    ELSE [err |-> "none", out |-> stable_kernel(X1, Transpose(X2T), out, k.variance.val)]

apply(k, X1, X2T, out, device) ==
    CASE k.tag = "ArcCosine" -> ArcCosine_apply(X1, X2T, out)
      [] k.tag = "NeuralTangent" -> NeuralTangent_apply(k, X1, X2T, out, device)
      [] k.tag = "LaplaceSphere" -> LaplaceSphere_apply(X1, X2T, out)

ArcCosine_prepare_sparse(X1, X2) == [err |-> "NotImplementedError", ret |-> <<>>]
NeuralTangent_prepare_sparse(X1, X2) == [err |-> "NotImplementedError", ret |-> <<>>]
LaplaceSphere_prepare_sparse(X1, X2) == [err |-> "NotImplementedError", ret |-> <<>>]

prepare_sparse(k, X1, X2) ==
    CASE k.tag = "ArcCosine" -> ArcCosine_prepare_sparse(X1, X2)
      [] k.tag = "NeuralTangent" -> NeuralTangent_prepare_sparse(X1, X2)
      [] k.tag = "LaplaceSphere" -> LaplaceSphere_prepare_sparse(X1, X2)

ArcCosine_apply_sparse(X1, X2T, out) == [err |-> "NotImplementedError", out |-> out]
\* a sparse apply that accumulates like the dense one and reports no error
apply_sparse_dense(X1, X2T, out) == [err |-> "none", out |-> addmm(out, X1, X2T)]

NeuralTangent_apply_sparse(X1, X2T, out) == [err |-> "NotImplementedError", out |-> out]
LaplaceSphere_apply_sparse(X1, X2T, out) == [err |-> "NotImplementedError", out |-> out]

apply_sparse(k, X1, X2T, out) ==
    CASE k.tag = "ArcCosine" -> ArcCosine_apply_sparse(X1, X2T, out)
      [] k.tag = "NeuralTangent" -> NeuralTangent_apply_sparse(X1, X2T, out)
      [] k.tag = "LaplaceSphere" -> LaplaceSphere_apply_sparse(X1, X2T, out)

(***************************************************************************)
(* _finalize: the in-place operations on the block A, in program order.    *)
(* The state of a run is the block A and the temporaries B and C.          *)
(***************************************************************************)
\* the operations of ArcCosineKernel._finalize with the clamp moved after
\* the inverse cosine
ArcCosine_finalize_ops_late_clamp ==
    <<"A.div_(n1)", "A.div_(n2)", "B=acos(A)", "A.clamp_(-1,1)", "C=sin(B)", "B.mul_(-1)",
      "B.add_(pi)", "A.mul_(B)", "A.add_(C)", "A.mul_(n1)", "A.mul_(n2)", "A.div_(pi)">>

ArcCosine_finalize_ops ==
    <<"A.div_(n1)", "A.div_(n2)", "A.clamp_(-1,1)", "B=acos(A)", "C=sin(B)", "B.mul_(-1)",
      "B.add_(pi)", "A.mul_(B)", "A.add_(C)", "A.mul_(n1)", "A.mul_(n2)", "A.div_(pi)">>

LaplaceSphere_finalize_ops ==
    <<"A.div_(n1)", "A.div_(n2)", "A.clamp_(-1,1)", "A.mul_(-1)", "A.add_(1)", "A.pow_(gamma)",
      "A.mul_(alpha)", "A.exp_()", "A.mul_(n1)", "A.mul_(n2)">>

NeuralTangent_finalize_ops == <<>>

finalize_ops(k) ==
    CASE k.tag = "ArcCosine" -> ArcCosine_finalize_ops
      [] k.tag = "NeuralTangent" -> NeuralTangent_finalize_ops
      [] k.tag = "LaplaceSphere" -> LaplaceSphere_finalize_ops

\* one in-place operation
FinalizeStep(o, s, d, k, rnd) ==
    LET R == 1..Rows(s.A)
        C == 1..Cols(s.A)
    IN  CASE o = "A.div_(n1)" ->
               [s EXCEPT !.A = [i \in R |-> [j \in C |-> FDiv(s.A[i][j], NInt(d.n1[i]), rnd)]]]
          [] o = "A.div_(n2)" ->
               [s EXCEPT !.A = [i \in R |-> [j \in C |-> FDiv(s.A[i][j], NInt(d.n2[j]), rnd)]]]
          [] o = "A.clamp_(-1,1)" ->
               [s EXCEPT !.A = [i \in R |-> [j \in C |-> Clamp(s.A[i][j], -1, 1)]]]
          [] o = "B=acos(A)" ->
               [s EXCEPT !.B = [i \in R |-> [j \in C |-> Acos(s.A[i][j])]]]
          [] o = "C=sin(B)" ->
               [s EXCEPT !.C = [i \in R |-> [j \in C |-> Sin(s.B[i][j])]]]
          [] o = "B.mul_(-1)" ->
               [s EXCEPT !.B = [i \in R |-> [j \in C |-> NMul(s.B[i][j], NInt(-1))]]]
          [] o = "B.add_(pi)" ->
               [s EXCEPT !.B = [i \in R |-> [j \in C |-> NAdd(s.B[i][j], NPi)]]]
          [] o = "A.mul_(B)" ->
               [s EXCEPT !.A = [i \in R |-> [j \in C |-> NMul(s.A[i][j], s.B[i][j])]]]
          [] o = "A.add_(C)" ->
               [s EXCEPT !.A = [i \in R |-> [j \in C |-> NAdd(s.A[i][j], s.C[i][j])]]]
          [] o = "A.mul_(n1)" ->
               [s EXCEPT !.A = [i \in R |-> [j \in C |-> NMul(s.A[i][j], NInt(d.n1[i]))]]]
          [] o = "A.mul_(n2)" ->
               [s EXCEPT !.A = [i \in R |-> [j \in C |-> NMul(s.A[i][j], NInt(d.n2[j]))]]]
          [] o = "A.div_(pi)" ->
               [s EXCEPT !.A = [i \in R |-> [j \in C |-> NDiv(s.A[i][j], NPi)]]]
          [] o = "A.mul_(-1)" ->
               [s EXCEPT !.A = [i \in R |-> [j \in C |-> NMul(s.A[i][j], NInt(-1))]]]
          [] o = "A.add_(1)" ->
               [s EXCEPT !.A = [i \in R |-> [j \in C |-> NAdd(s.A[i][j], NInt(1))]]]
          [] o = "A.pow_(gamma)" ->
               [s EXCEPT !.A = [i \in R |-> [j \in C |-> Pow(s.A[i][j], NInt(k.gamma))]]]
          [] o = "A.mul_(alpha)" ->
               [s EXCEPT !.A = [i \in R |-> [j \in C |-> NMul(s.A[i][j], NInt(k.alpha))]]]
          [] o = "A.exp_()" ->
               [s EXCEPT !.A = [i \in R |-> [j \in C |-> Exp(s.A[i][j])]]]

\* the states of a run of the operations ops from s: the state before the
\* first operation, then the state after each
RECURSIVE FinalizeRun(_, _, _, _, _)
FinalizeRun(ops, s, d, k, rnd) ==
    IF ops = <<>> THEN <<s>>
    ELSE <<s>> \o FinalizeRun(Tail(ops), FinalizeStep(Head(ops), s, d, k, rnd), d, k, rnd)

finalize_run(k, A, d, rnd) ==
    FinalizeRun(finalize_ops(k), [A |-> A, B |-> <<>>, C |-> <<>>], d, k, rnd)

\* _finalize(A, d): the block after the last operation
finalize(k, A, d, rnd) ==
    LET run == finalize_run(k, A, d, rnd) IN run[Len(run)].A

\* the arguments _finalize hands to torch.acos
finalize_acos_args(k, A, d, rnd) ==
    LET ops == finalize_ops(k)
        run == finalize_run(k, A, d, rnd)
    IN  UNION {Entries(run[n].A) : n \in {m \in 1..Len(ops) : ops[m] = "B=acos(A)"}}

(***************************************************************************)
(* Strategy selection and the matrix-vector product.                       *)
(***************************************************************************)
\* _decide_mmv_impl: the symbolic evaluator when keops_can_handle_mmv says
\* so, else the base class's choice, the staged pipeline
ArcCosine_decide_mmv_impl(keops, device) == IF keops THEN "keops" ELSE "fmmv"
\* a selector that prefers the compiled device kernel of the staged path
decide_device_first(keops, device) ==
    IF device THEN "fmmv" ELSE IF keops THEN "keops" ELSE "fmmv"

NeuralTangent_decide_mmv_impl(keops, device) == IF keops THEN "keops" ELSE "fmmv"
LaplaceSphere_decide_mmv_impl(keops, device) == IF keops THEN "keops" ELSE "fmmv"

decide_mmv_impl(k, keops, device) ==
    CASE k.tag = "ArcCosine" -> ArcCosine_decide_mmv_impl(keops, device)
      [] k.tag = "NeuralTangent" -> NeuralTangent_decide_mmv_impl(keops, device)
      [] k.tag = "LaplaceSphere" -> LaplaceSphere_decide_mmv_impl(keops, device)

\* the staged pipeline after _prepare returned d and _apply returned a:
\* _finalize and the product with v
fmmv_finish(k, a, d, v, rnd) ==
    IF a.err # "none" THEN [impl |-> "fmmv", err |-> a.err, ret |-> <<>>, acos |-> {}]
    ELSE [impl |-> "fmmv", err |-> "none",
          ret |-> MatVec(finalize(k, a.out, d, rnd), NumVec(v)),
          acos |-> finalize_acos_args(k, a.out, d, rnd)]

\* the staged pipeline over one block: a zero-filled buffer, then _prepare,
\* _apply, _finalize and the product with v
fmmv(k, X1, X2, v, rnd, device) ==
    fmmv_finish(k, apply(k, X1, Transpose(X2), Fill(Len(X1), Len(X2), 0), device),
                prepare(k, X1, X2), v, rnd)

\* kernel.mmv(X1, X2, v): the chosen implementation and its outcome
mmv(k, X1, X2, v, rnd, keops, device) ==
    IF decide_mmv_impl(k, keops, device) = "keops"
    THEN keops_mmv_impl(k, X1, X2, v, rnd)
    ELSE fmmv(k, X1, X2, v, rnd, device)

(***************************************************************************)
(* DirectKernelSolver.  None is the empty sequence; torch.inverse is the   *)
(* exact inverse and raises on a singular matrix.                          *)
(***************************************************************************)
\* torch.eye(n, m)
eye(n, m) == [i \in 1..n |-> [j \in 1..m |-> NInt(IF i = j THEN 1 ELSE 0)]]

\* A without row i and column j
Minor(A, i, j) ==
    [r \in 1..(Rows(A) - 1) |-> [c \in 1..(Cols(A) - 1) |->
        A[IF r < i THEN r ELSE r + 1][IF c < j THEN c ELSE c + 1]]]

RECURSIVE Det(_)
Det(A) ==
    IF Rows(A) = 1 THEN A[1][1]
    ELSE NumSum([j \in 1..Cols(A) |->
                    NMul(NInt(IF j % 2 = 1 THEN 1 ELSE -1),
                         NMul(A[1][j], Det(Minor(A, 1, j))))])

Cofactor(A, i, j) ==
    IF Rows(A) = 1 THEN NInt(1)
    ELSE NMul(NInt(IF (i + j) % 2 = 0 THEN 1 ELSE -1), Det(Minor(A, i, j)))

\* the inverse of A by cofactors, det being its determinant
inverse_by(A, det) ==
    IF NumEq(det, NInt(0)) THEN [err |-> "RuntimeError", ret |-> <<>>]
    ELSE [err |-> "none",
          ret |-> [i \in 1..Rows(A) |-> [j \in 1..Cols(A) |->
                      NDiv(Cofactor(A, j, i), det)]]]

\* torch.inverse(A) of a square matrix
inverse(A) == inverse_by(A, Det(A))

DirectKernelSolver_init(k, penalty) ==
    [kernel |-> k, penalty |-> penalty, x_ |-> <<>>, alpha_ |-> <<>>]

\* Kxx + self.penalty * torch.eye(Kxx.shape[0], Kxx.shape[1])
Regularized(Kxx, penalty) ==
    [i \in 1..Rows(Kxx) |-> [j \in 1..Cols(Kxx) |->
        NAdd(Kxx[i][j], NMul(NInt(penalty), eye(Rows(Kxx), Cols(Kxx))[i][j]))]]

\* a fit that keeps the training set of the first fit
fit_solve_stale(s, x, y, inv) ==
    IF inv.err # "none" THEN [err |-> inv.err, s |-> s]
    ELSE [err |-> "none",
          s |-> [s EXCEPT !.x_ = IF @ = <<>> THEN x ELSE @,
                          !.alpha_ = MatVec(inv.ret, NumVec(y))]]

\* fit after self.x_ = x: the inverse raises, or alpha_ is assigned
fit_solve(s, x, y, inv) ==
    IF inv.err # "none" THEN [err |-> inv.err, s |-> [s EXCEPT !.x_ = x]]
    ELSE [err |-> "none",
          s |-> [s EXCEPT !.x_ = x, !.alpha_ = MatVec(inv.ret, NumVec(y))]]

DirectKernelSolver_fit(s, x, y, rnd) ==
    fit_solve(s, x, y, inverse(Regularized(direct_kernel(s.kernel, x, x, rnd), s.penalty)))

\* Kxxp @ self.alpha_
predict_matmul(Kxxp, alpha) ==
    IF alpha = <<>> THEN [err |-> "TypeError", ret |-> <<>>]
    ELSE IF Cols(Kxxp) # Len(alpha) THEN [err |-> "RuntimeError", ret |-> <<>>]
    ELSE [err |-> "none", ret |-> MatVec(Kxxp, alpha)]

DirectKernelSolver_predict(s, x, rnd) ==
    IF s.x_ = <<>> THEN [err |-> "AttributeError", ret |-> <<>>]
    ELSE IF ~Broadcasts(x, s.x_) THEN [err |-> "RuntimeError", ret |-> <<>>]
    ELSE predict_matmul(direct_kernel(s.kernel, x, s.x_, rnd), s.alpha_)

(***************************************************************************)
(* State.                                                                  *)
(*   kernel  the kernel object of the session (NoKernel before one is      *)
(*           constructed)                                                  *)
(*   op      the last operation called; args its arguments; ret the value  *)
(*           it returned; err the error it raised ("none" if it returned)  *)
(*   path    the implementation the last mmv selected                      *)
(*   acosIn  the numbers the last operation handed to an inverse cosine    *)
(*   blk     a caller's block of the staged pipeline: its operands, the    *)
(*           caller-supplied buffer out and the auxiliary data of _prepare *)
(*   solver  a DirectKernelSolver: kernel, penalty, x_ and alpha_ (<<>>    *)
(*           stands for None)                                              *)
(*   call    the last solver call, with its arguments, result and error    *)
(*   fitted  the arguments of the last fit call that completed             *)
(*   script  the last call into fit_n_spline_falkon.py (a run of the       *)
(*           script, or eval_grid), with its arguments, result and error   *)
(***************************************************************************)
VARIABLES kernel, op, args, ret, err, path, acosIn, blk, solver, call, fitted, script

vars == <<kernel, op, args, ret, err, path, acosIn, blk, solver, call, fitted, script>>

engineVars == <<kernel, op, args, ret, err, path, acosIn, blk>>

NoArgs == [X1 |-> <<>>, X2 |-> <<>>, v |-> <<>>, rnd |-> 0, keops |-> FALSE,
           device |-> FALSE, hyper |-> <<>>]

NoBlock == [stage |-> "none", X1 |-> <<>>, X2 |-> <<>>, fill |-> 0, out |-> <<>>, aux |-> NoAux]

NoSolver == [kernel |-> NoKernel, penalty |-> 0, x_ |-> <<>>, alpha_ |-> <<>>]

NoCall == [name |-> "none", x |-> <<>>, y |-> <<>>, rnd |-> 0, ret |-> <<>>, err |-> "none"]

\* the last fit call that completed, how the most recent fit call ended, and
\* whether a fit had completed before the last one that did
NoFit == [x |-> <<>>, y |-> <<>>, last |-> "none", refit |-> FALSE]

NoScript == [name |-> "none", args |-> <<>>, ret |-> <<>>, err |-> "none"]

Rnd == {0, 1}

\* the vectors v of a product with m columns: all ones, or 1, 2, ...
VecKinds == {"ones", "ramp"}
Vec(kind, m) == [j \in 1..m |-> IF kind = "ones" THEN 1 ELSE j]

\* what the buffer a caller supplies may hold
BufFill == {0, 1}

Init ==
    /\ kernel = NoKernel
    /\ op = "none"
    /\ args = NoArgs
    /\ ret = <<>>
    /\ err = "none"
    /\ path = "none"
    /\ acosIn = {}
    /\ blk = NoBlock
    /\ solver = NoSolver
    /\ call = NoCall
    /\ fitted = NoFit
    /\ script = NoScript

\* the outcome of an operation of the engine that is not a product
Done(o, a, r, e, ac) ==
    /\ op' = o
    /\ args' = a
    /\ ret' = r
    /\ err' = e
    /\ path' = "none"
    /\ acosIn' = ac

(***************************************************************************)
(* Construction.                                                           *)
(***************************************************************************)
Constructed(c, hyper) ==
    /\ kernel.tag = "None"
    /\ op = "none"
    /\ kernel' = c.k
    /\ Done("__init__", [NoArgs EXCEPT !.hyper = hyper], <<>>, c.err, {})
    /\ UNCHANGED <<blk, solver, call, fitted, script>>

NewArcCosineKernel == Constructed(ArcCosineKernel_init, <<>>)

NewNeuralTangentKernel ==
    \E variance \in PyObj(VarianceVals) :
        Constructed(NeuralTangentKernel_init(variance), <<variance>>)

NewLaplaceKernelSphere ==
    \E alpha \in PyObj(AlphaVals), gamma \in PyObj(GammaVals) :
        Constructed(LaplaceKernelSphere_init(alpha, gamma), <<alpha, gamma>>)

(***************************************************************************)
(* direct_kernel and the matrix-vector product.                            *)
(***************************************************************************)
DirectKernel ==
    \E X1 \in AllPointSets(MaxPts), X2 \in AllPointSets(MaxPts), rnd \in Rnd :
        /\ kernel.tag # "None"
        /\ op = "none"
        /\ blk.stage = "none"
        /\ IF Broadcasts(X1, X2)
           THEN Done("direct_kernel", [NoArgs EXCEPT !.X1 = X1, !.X2 = X2, !.rnd = rnd],
                     direct_kernel(kernel, X1, X2, rnd), "none",
                     direct_acos_args(kernel, X1, X2, rnd))
           ELSE Done("direct_kernel", [NoArgs EXCEPT !.X1 = X1, !.X2 = X2, !.rnd = rnd],
                     <<>>, "RuntimeError", {})
        /\ UNCHANGED <<kernel, blk, solver, call, fitted, script>>

Mmv ==
    \E d \in BlockDims :
    \E X1 \in PointSets(d, MaxPts), X2 \in PointSets(d, MaxPts), rnd \in Rnd,
       keops \in BOOLEAN, device \in BOOLEAN, vk \in VecKinds :
        /\ kernel.tag # "None"
        /\ op = "none"
        /\ blk.stage = "none"
        /\ \E r \in {mmv(kernel, X1, X2, Vec(vk, Len(X2)), rnd, keops, device)} :
            /\ op' = "mmv"
            /\ args' = [NoArgs EXCEPT !.X1 = X1, !.X2 = X2, !.v = Vec(vk, Len(X2)), !.rnd = rnd,
                                      !.keops = keops, !.device = device]
            /\ ret' = r.ret
            /\ err' = r.err
            /\ path' = r.impl
            /\ acosIn' = r.acos
        /\ UNCHANGED <<kernel, blk, solver, call, fitted, script>>

(***************************************************************************)
(* A caller's block of the staged pipeline, one call at a time.            *)
(***************************************************************************)
Alloc ==
    \E d \in BlockDims :
    \E X1 \in PointSets(d, MaxPts), X2 \in PointSets(d, MaxPts), fill \in BufFill :
        /\ kernel.tag # "None"
        /\ op = "none"
        /\ blk.stage = "none"
        /\ blk' = [stage |-> "alloc", X1 |-> X1, X2 |-> X2, fill |-> fill,
                   out |-> Fill(Len(X1), Len(X2), fill), aux |-> NoAux]
        /\ Done("alloc", NoArgs, <<>>, "none", {})
        /\ UNCHANGED <<kernel, solver, call, fitted, script>>

Prepare ==
    /\ blk.stage = "alloc"
    /\ blk' = [blk EXCEPT !.stage = "prepared", !.aux = prepare(kernel, blk.X1, blk.X2)]
    /\ Done("_prepare", NoArgs, <<>>, "none", {})
    /\ UNCHANGED <<kernel, solver, call, fitted, script>>

Apply ==
    \E device \in BOOLEAN :
        /\ blk.stage = "prepared"
        /\ \E a \in {apply(kernel, blk.X1, Transpose(blk.X2), blk.out, device)} :
            /\ blk' = [blk EXCEPT !.stage = IF a.err = "none" THEN "applied" ELSE @,
                                  !.out = a.out]
            /\ Done("_apply", [NoArgs EXCEPT !.device = device], <<>>, a.err, {})
        /\ UNCHANGED <<kernel, solver, call, fitted, script>>

\* _finalize is given a block that _apply computed into a zeroed buffer
Finalize ==
    \E rnd \in Rnd :
        /\ blk.stage = "applied"
        /\ blk.fill = 0
        /\ blk' = [blk EXCEPT !.stage = "finalized",
                              !.out = finalize(kernel, blk.out, blk.aux, rnd)]
        /\ Done("_finalize", [NoArgs EXCEPT !.rnd = rnd], blk'.out, "none",
                finalize_acos_args(kernel, blk.out, blk.aux, rnd))
        /\ UNCHANGED <<kernel, solver, call, fitted, script>>

PrepareSparse ==
    /\ blk.stage # "none"
    /\ \E r \in {prepare_sparse(kernel, blk.X1, blk.X2)} :
        Done("_prepare_sparse", NoArgs, r.ret, r.err, {})
    /\ UNCHANGED <<kernel, blk, solver, call, fitted, script>>

ApplySparse ==
    /\ blk.stage # "none"
    /\ \E r \in {apply_sparse(kernel, blk.X1, Transpose(blk.X2), blk.out)} :
        /\ blk' = [blk EXCEPT !.out = r.out]
        /\ Done("_apply_sparse", NoArgs, <<>>, r.err, {})
    /\ UNCHANGED <<kernel, solver, call, fitted, script>>

Release ==
    /\ blk.stage # "none"
    /\ blk' = NoBlock
    /\ Done("none", NoArgs, <<>>, "none", {})
    /\ UNCHANGED <<kernel, solver, call, fitted, script>>

\* the caller takes the outcome of the last operation; the engine keeps
\* nothing of it
Return ==
    /\ op # "none"
    /\ blk.stage = "none"
    /\ Done("none", NoArgs, <<>>, "none", {})
    /\ UNCHANGED <<kernel, blk, solver, call, fitted, script>>

Next ==
    \/ NewArcCosineKernel
    \/ NewNeuralTangentKernel
    \/ NewLaplaceKernelSphere
    \/ DirectKernel
    \/ Mmv
    \/ Alloc
    \/ Prepare
    \/ Apply
    \/ Finalize
    \/ PrepareSparse
    \/ ApplySparse
    \/ Release
    \/ Return

Spec == Init /\ [][Next]_vars

\* the matrix-vector product alone
MmvNext ==
    \/ NewArcCosineKernel
    \/ NewNeuralTangentKernel
    \/ NewLaplaceKernelSphere
    \/ Mmv
    \/ Return

MmvSpec == Init /\ [][MmvNext]_vars

\* the stages of the pipeline alone, called on one block at a time
StagedNext ==
    \/ NewArcCosineKernel
    \/ NewNeuralTangentKernel
    \/ NewLaplaceKernelSphere
    \/ Alloc
    \/ Prepare
    \/ Apply
    \/ Finalize
    \/ PrepareSparse
    \/ ApplySparse
    \/ Release
    \/ Return

StagedSpec == Init /\ [][StagedNext]_vars

\* direct_kernel(X, X), as DirectKernelSolver.fit calls it
SelfKernel ==
    \E X \in AllPointSets(MaxSelf), rnd \in Rnd :
        /\ kernel.tag # "None"
        /\ op = "none"
        /\ blk.stage = "none"
        /\ Done("direct_kernel", [NoArgs EXCEPT !.X1 = X, !.X2 = X, !.rnd = rnd],
                direct_kernel(kernel, X, X, rnd), "none", direct_acos_args(kernel, X, X, rnd))
        /\ UNCHANGED <<kernel, blk, solver, call, fitted, script>>

\* the reference kernels alone
DirectNext ==
    \/ NewArcCosineKernel
    \/ NewNeuralTangentKernel
    \/ NewLaplaceKernelSphere
    \/ DirectKernel
    \/ SelfKernel
    \/ Return

DirectSpec == Init /\ [][DirectNext]_vars

(***************************************************************************)
(* The direct solver: construction, fit, predict.                          *)
(***************************************************************************)
\* the kernels fit_model builds a solver on, and the penalties
SolverKernels == {ArcCosineKernel_init.k,
                  LaplaceKernelSphere_init(PyFloat(-1), PyFloat(1)).k}
Penalties == {0, 1}

\* the feature dimension of training sets; queries take every dimension
TrainDims == {2}
TrainSets ==
    {x \in UNION {PointSets(d, MaxTrain) : d \in TrainDims} :
        \A i \in 1..Len(x), k \in 1..Dim(x) : x[i][k] >= 0}
Targets(n) == {Vec(kind, n) : kind \in VecKinds}

NewDirectKernelSolver ==
    \E k \in SolverKernels, penalty \in Penalties :
        /\ solver.kernel.tag = "None"
        /\ solver' = DirectKernelSolver_init(k, penalty)
        /\ UNCHANGED <<engineVars, call, fitted, script>>

Fit ==
    \E x \in TrainSets, rnd \in Rnd :
        \E y \in Targets(Len(x)) :
            /\ solver.kernel.tag # "None"
            /\ call.name = "none"
            /\ \E r \in {DirectKernelSolver_fit(solver, x, y, rnd)} :
                /\ solver' = r.s
                /\ call' = [NoCall EXCEPT !.name = "fit", !.x = x, !.y = y, !.rnd = rnd,
                                          !.err = r.err]
                /\ fitted' = IF r.err = "none"
                             THEN [x |-> x, y |-> y, last |-> "completed",
                                   refit |-> fitted.x # <<>>]
                             ELSE [fitted EXCEPT !.last = "raised"]
            /\ UNCHANGED <<engineVars, script>>

Predict ==
    \E x \in AllPointSets(MaxPts), rnd \in Rnd :
        /\ solver.kernel.tag # "None"
        /\ call.name = "none"
        /\ \E r \in {DirectKernelSolver_predict(solver, x, rnd)} :
            call' = [NoCall EXCEPT !.name = "predict", !.x = x, !.rnd = rnd,
                                  !.ret = r.ret, !.err = r.err]
        /\ UNCHANGED <<engineVars, solver, fitted, script>>

\* the caller takes the outcome of fit or predict
SolverReturn ==
    /\ call.name # "none"
    /\ call' = NoCall
    /\ UNCHANGED <<engineVars, solver, fitted, script>>

SolverNext ==
    \/ NewDirectKernelSolver
    \/ Fit
    \/ Predict
    \/ SolverReturn

SolverSpec == Init /\ [][SolverNext]_vars
(***************************************************************************)
(* The script fit_n_spline_falkon.py: its import of the kernel family, the *)
(* run of main with fit_model, and eval_grid.  A fitted model is named by  *)
(* its class; the fit itself is the solver's, modelled above.              *)
(***************************************************************************)
\* the functions and classes common/falkon_kernels.py defines
falkon_kernels_module ==
    {"extract_float", "k_spherical_laplace", "k_arccos", "k_ntk", "DirectKernelSolver",
     "DirectKernelMixin", "ArcCosineKernel", "NeuralTangentKernel", "LaplaceKernelSphere"}

\* the kernel fit_model constructs
fit_model_kernel(kernel_type, decay) ==
    IF kernel_type = "spherical-laplace"
    THEN IF decay > 0 THEN [err |-> "none", kernel |-> "LaplaceKernelSphereDecay"]
         ELSE [err |-> "none", kernel |-> "LaplaceKernelSphere"]
    ELSE IF kernel_type = "arccosine"
    THEN IF decay > 0 THEN [err |-> "NotImplementedError", kernel |-> "none"]
         ELSE [err |-> "none", kernel |-> "ArcCosineKernel"]
    ELSE [err |-> "ValueError", kernel |-> "none"]

\* fit_model: the kernel, then the model the mode names, then model.fit
fit_model(kernel_type, mode, decay) ==
    LET k == fit_model_kernel(kernel_type, decay)
    IN  IF k.err # "none" THEN [err |-> k.err, kernel |-> "none", model |-> "none"]
        ELSE IF mode = "falkon" THEN [err |-> "none", kernel |-> k.kernel, model |-> "Falkon"]
        ELSE IF mode = "direct"
        THEN [err |-> "none", kernel |-> k.kernel, model |-> "DirectKernelSolver"]
        ELSE [err |-> "ValueError", kernel |-> k.kernel, model |-> "none"]

\* main: fit_model(xb, yb, ..., mode="falkon", kernel_type=args.kernel,
\* decay=args.decay, ...)
main(a) == fit_model(a.kernel, "falkon", a.decay)

\* python fit_n_spline_falkon.py: the imports of the module, then main.
\* from common.falkon_kernels import ... raises unless the module defines
\* every name
run_script(a) ==
    IF ~({"ArcCosineKernel", "LaplaceKernelSphere", "LaplaceKernelSphereDecay",
          "DirectKernelSolver"} \subseteq falkon_kernels_module)
    THEN [err |-> "ImportError", kernel |-> "none", model |-> "none"]
    ELSE main(a)

\* the values of --mode, --kernel and --decay
Modes == {"falkon", "direct", "lu"}
KernelTypes == {"spherical-laplace", "arccosine", "gaussian"}
Decays == {-1, 0, 1}

RunScript ==
    \E mode \in Modes, kernel_type \in KernelTypes, decay \in Decays :
        /\ script.name = "none"
        /\ call.name = "none"
        /\ \E r \in {run_script([mode |-> mode, kernel |-> kernel_type, decay |-> decay])} :
            script' = [name |-> "main",
                       args |-> [mode |-> mode, kernel |-> kernel_type, decay |-> decay],
                       ret |-> [kernel |-> r.kernel, model |-> r.model],
                       err |-> r.err]
        /\ UNCHANGED <<engineVars, solver, call, fitted>>

\* int(np.ceil(xgrid.shape[0] / nchunks))
chunk_size(n, nchunks) == (n + nchunks - 1) \div nchunks

\* xgrid[ibeg:iend]: a slice stops at the end of the tensor and is empty
\* when it starts there
Slice(xgrid, ibeg, iend) ==
    SubSeq(xgrid, (IF ibeg < Len(xgrid) THEN ibeg ELSE Len(xgrid)) + 1,
                  IF iend < Len(xgrid) THEN iend ELSE Len(xgrid))

\* the slices of the loop over range(nchunks)
Slices(xgrid, nchunks) ==
    [i \in 1..nchunks |->
        Slice(xgrid, (i - 1) * chunk_size(Len(xgrid), nchunks),
                     i * chunk_size(Len(xgrid), nchunks))]

\* model.predict of a DirectKernelSolver on a slice.  An empty slice has
\* shape [0, d]: direct_kernel gives a tensor of shape [0, s2] (of shape
\* [0, 0] from k_spherical_laplace when s2 = 1) and the product with
\* alpha_ has no entries
predict_slice(s, x, rnd) ==
    IF x # <<>> THEN DirectKernelSolver_predict(s, x, rnd)
    ELSE IF s.x_ = <<>> THEN [err |-> "AttributeError", ret |-> <<>>]
    ELSE IF s.alpha_ = <<>> THEN [err |-> "TypeError", ret |-> <<>>]
    ELSE IF (IF s.kernel.tag = "LaplaceSphere" /\ Len(s.x_) = 1 THEN 0 ELSE Len(s.x_))
                # Len(s.alpha_)
         THEN [err |-> "RuntimeError", ret |-> <<>>]
    ELSE [err |-> "none", ret |-> <<>>]

\* torch.cat(ygrid)
RECURSIVE cat(_)
cat(parts) == IF parts = <<>> THEN <<>> ELSE Head(parts).ret \o cat(Tail(parts))

\* the loop over the chunks: the first predict that raises ends it
eval_chunks(parts) ==
    IF \E i \in 1..Len(parts) : parts[i].err # "none"
    THEN [err |-> parts[CHOOSE i \in 1..Len(parts) :
                            /\ parts[i].err # "none"
                            /\ \A j \in 1..(i - 1) : parts[j].err = "none"].err,
          ret |-> <<>>]
    ELSE [err |-> "none", ret |-> cat(parts)]

\* eval_grid on the points xgrid of the grid
eval_grid(s, xgrid, nchunks, rnd) ==
    IF nchunks > 1
    THEN eval_chunks([i \in 1..nchunks |-> predict_slice(s, Slices(xgrid, nchunks)[i], rnd)])
    ELSE predict_slice(s, xgrid, rnd)

\* the grid: n points at equal spacing along one axis
Grid(axis, n) == [c \in 1..n |-> Axis(2, axis, c)]

EvalGrid ==
    \E n \in 1..MaxGrid, axis \in {1, 2}, nchunks \in 1..MaxChunks, rnd \in Rnd :
        /\ script.name = "none"
        /\ call.name = "none"
        /\ solver.kernel.tag # "None"
        /\ \E r \in {eval_grid(solver, Grid(axis, n), nchunks, rnd)} :
            script' = [name |-> "eval_grid",
                       args |-> [xgrid |-> Grid(axis, n), nchunks |-> nchunks, rnd |-> rnd],
                       ret |-> r.ret,
                       err |-> r.err]
        /\ UNCHANGED <<engineVars, solver, call, fitted>>

\* the caller takes the outcome of the run or of eval_grid
ScriptReturn ==
    /\ script.name # "none"
    /\ script' = NoScript
    /\ UNCHANGED <<engineVars, solver, call, fitted>>

\* the script and the solver it fits and evaluates, one call at a time
ScriptNext ==
    \/ script.name = "none" /\ NewDirectKernelSolver
    \/ script.name = "none" /\ Fit
    \/ script.name = "none" /\ SolverReturn
    \/ RunScript
    \/ EvalGrid
    \/ ScriptReturn

ScriptSpec == Init /\ [][ScriptNext]_vars

(***************************************************************************)
(* Properties of the kernels.                                              *)
(***************************************************************************)
MatEq(A, B) == /\ Rows(A) = Rows(B)
               /\ \A i \in 1..Rows(A) : VecEq(A[i], B[i])

\* the kernel holds hyperparameters every path can read as numbers
HyperValid == kernel.tag = "NeuralTangent" => VarianceIsScalar(kernel)

\* the three evaluations of the product the last mmv call asked for
ProductDirect == MatVec(direct_kernel(kernel, args.X1, args.X2, args.rnd), NumVec(args.v))
ProductKeops == keops_mmv_impl(kernel, args.X1, args.X2, args.v, args.rnd)
ProductStaged == fmmv(kernel, args.X1, args.X2, args.v, args.rnd, TRUE)

\* C1: for every kernel variant with valid hyperparameters the symbolic
\* path, the staged path and direct_kernel give the same matrix-vector
\* product, so the path chosen never changes the value.
C1_PathsAgree ==
    (op = "mmv" /\ HyperValid) =>
        /\ VecEq(ProductKeops.ret, ProductDirect)
        /\ VecEq(ProductStaged.ret, ProductDirect)

\* a product of the neural tangent kernel, evaluated without error by the
\* symbolic path, that differs from the one direct_kernel gives
C1_Diverges ==
    /\ op = "mmv" /\ err = "none" /\ path = "keops"
    /\ kernel.tag = "NeuralTangent" /\ HyperValid
    /\ ~VecEq(ret, ProductDirect)
    /\ VecEq(ret, ProductStaged.ret)

\* C2: direct_kernel of NeuralTangentKernel(variance = v) returns for every
\* pair (|x||y|/pi) * (sin t + (1 + v) * (pi - t) * cos t) with t the clamped
\* angle, that is k_ntk with the variance the kernel was constructed with.
C2_DirectKernelIsNtk ==
    (op = "direct_kernel" /\ err = "none" /\ kernel.tag = "NeuralTangent"
        /\ VarianceIsScalar(kernel)) =>
        MatEq(ret, k_ntk(args.X1, args.X2, kernel.variance.val, args.rnd))

\* direct_kernel of a neural tangent kernel of variance 1 returned the
\* arc-cosine values, which are not those of k_ntk
C2_IgnoresVariance ==
    /\ op = "direct_kernel" /\ err = "none" /\ kernel.tag = "NeuralTangent"
    /\ kernel.variance = PyFloat(1)
    /\ MatEq(ret, k_arccos(args.X1, args.X2, args.rnd))
    /\ ~MatEq(ret, k_ntk(args.X1, args.X2, 1, args.rnd))

\* C6: constructing a kernel with a hyperparameter that does not reduce to
\* a single number raises an error, and no kernel object holds a non-scalar
\* hyperparameter.
C6_ScalarHyperparameters ==
    /\ \A h \in HeldHyper(kernel) : h.kind \in ScalarKinds
    /\ (op = "__init__" /\ \E i \in 1..Len(args.hyper) : args.hyper[i].kind \notin ScalarKinds)
           => (err # "none" /\ kernel.tag = "None")

\* a neural tangent kernel was constructed without error on a list
C6_NonScalarHeld ==
    /\ op = "__init__" /\ err = "none"
    /\ kernel.tag = "NeuralTangent"
    /\ kernel.variance.kind = "list"

\* C7: on every path of every angular kernel the value handed to the
\* inverse cosine has been clamped to [-1, 1].
C7_AcosArgumentClamped == \A a \in acosIn : InAcosDomain(a)

\* the symbolic path of the arc-cosine kernel handed the inverse cosine a
\* value outside [-1, 1] and the product is not a number
C7_UnclampedAcos ==
    /\ op = "mmv" /\ path = "keops" /\ kernel.tag = "ArcCosine"
    /\ \E a \in acosIn : ~InAcosDomain(a)
    /\ \E i \in 1..Len(ret) : ret[i].nan

\* C8 as claimed: the compiled device kernel, when the variant defines one
\* and the device supports it, is chosen first; otherwise the symbolic
\* evaluator when it can handle the operands; otherwise the staged pipeline.
C8_DeviceKernelFirst ==
    op = "mmv" =>
        path = IF kernel.tag = "NeuralTangent" /\ args.device THEN "fmmv"
               ELSE IF args.keops THEN "keops" ELSE "fmmv"

\* C8 as the code has it: the symbolic evaluator is chosen whenever it can
\* handle the operands, the staged pipeline otherwise, for every variant
\* and whatever the device supports; the compiled device kernel runs only
\* inside the staged pipeline.
C8_SymbolicFirst ==
    op = "mmv" => path = IF args.keops THEN "keops" ELSE "fmmv"

\* a neural tangent product with both the device kernel and the symbolic
\* evaluator usable went to the symbolic evaluator
C8_BothUsable ==
    /\ op = "mmv" /\ kernel.tag = "NeuralTangent"
    /\ args.keops /\ args.device
    /\ path = "keops" /\ err = "none"

\* C9: a product request on a kernel with valid hyperparameters never ends
\* in an error, whatever capabilities are available; the neural tangent
\* kernel without the symbolic evaluator and without the device capability
\* falls back to the standard arc-cosine form.
C9_NoCapabilityError ==
    (op = "mmv" /\ HyperValid) =>
        /\ err = "none"
        /\ (kernel.tag = "NeuralTangent" /\ ~args.keops /\ ~args.device)
               => VecEq(ret, MatVec(k_arccos(args.X1, args.X2, args.rnd), NumVec(args.v)))

\* a neural tangent product without the symbolic evaluator and without the
\* device capability ended in the import error of the staged _apply
C9_ImportError ==
    /\ op = "mmv" /\ kernel.tag = "NeuralTangent" /\ HyperValid
    /\ ~args.keops /\ ~args.device
    /\ path = "fmmv" /\ err = "ImportError" /\ ret = <<>>

\* C10: every call of _prepare_sparse or _apply_sparse ends in
\* NotImplementedError, returns nothing and leaves the block and its output
\* buffer as they were.
C10_SparseUnsupported ==
    [][op' \in {"_prepare_sparse", "_apply_sparse"} =>
          (err' = "NotImplementedError" /\ ret' = <<>> /\ blk' = blk)]_vars

\* _apply_sparse was called on a block whose buffer holds the products
\* the dense _apply accumulated
C10_SparseOnFilledBuffer ==
    /\ op = "_apply_sparse" /\ err = "NotImplementedError"
    /\ blk.stage = "applied"
    /\ blk.out # Fill(Len(blk.X1), Len(blk.X2), blk.fill)

(***************************************************************************)
(* Properties of the direct solver.                                        *)
(***************************************************************************)
\* C3: when the most recent fit call completed, a prediction that returns
\* is direct_kernel(Xq, X) @ alpha with X the training set of that fit and
\* alpha the solution of (direct_kernel(X, X) + penalty * I) alpha = y for
\* the y of that fit; no earlier fit takes part.
C3_PredictUsesLatestFit ==
    (call.name = "predict" /\ call.err = "none" /\ fitted.last = "completed") =>
        /\ VecEq(MatVec(Regularized(direct_kernel(solver.kernel, fitted.x, fitted.x, 0),
                                    solver.penalty),
                        solver.alpha_),
                 NumVec(fitted.y))
        /\ VecEq(call.ret,
                 MatVec(direct_kernel(solver.kernel, call.x, fitted.x, call.rnd),
                        solver.alpha_))

\* a prediction returned after a second fit on another training set of two
\* points, with a penalty
C3_PredictAfterRefit ==
    /\ call.name = "predict" /\ call.err = "none"
    /\ fitted.last = "completed" /\ fitted.refit
    /\ Len(fitted.x) = 2 /\ solver.penalty = 1
    /\ Len(call.ret) = Len(call.x)

\* C4: predict on a solver on which no fit has completed fails with an
\* error that identifies the model as unfitted and returns no prediction.
C4_UnfittedError ==
    (call.name = "predict" /\ fitted.x = <<>>) =>
        (call.err = "NotFittedError" /\ call.ret = <<>>)

\* predict on a solver that was never fitted ended in the attribute error
\* of the kernel function handed None
C4_AttributeError ==
    /\ call.name = "predict" /\ fitted.last = "none"
    /\ solver.x_ = <<>> /\ solver.alpha_ = <<>>
    /\ call.err = "AttributeError" /\ call.ret = <<>>

\* C5: predict on a fitted solver fails with a dimension-mismatch error and
\* returns no prediction whenever the feature dimension of the query
\* differs from that of the training set, also when one of the two is 1.
C5_DimensionMismatch ==
    (call.name = "predict" /\ fitted.last = "completed" /\ Dim(call.x) # Dim(fitted.x)) =>
        (call.err = "RuntimeError" /\ call.ret = <<>>)

\* a query of feature dimension 1 on a solver fitted in dimension 2
\* returned a prediction
C5_BroadcastPrediction ==
    /\ call.name = "predict" /\ fitted.last = "completed"
    /\ Dim(call.x) = 1 /\ Dim(fitted.x) = 2
    /\ call.err = "none" /\ call.ret # <<>>

(***************************************************************************)
(* Properties of the stages of the pipeline.                               *)
(***************************************************************************)
\* the raw block of the operands of the caller's block: the dot products of
\* the rows of X1 with the rows of X2
RawBlock ==
    [i \in 1..Len(blk.X1) |-> [j \in 1..Len(blk.X2) |->
        NInt(SeqSum([c \in 1..Dim(blk.X1) |-> blk.X1[i][c] * blk.X2[j][c]]))]]

\* the documented chain of ArcCosineKernel for one entry: divide by n1, by
\* n2, clamp, theta and sin(theta), (pi - theta), times cos(theta), plus
\* sin(theta), times both norms, divide by pi
DocumentedArcCosine(raw, n1, n2, rnd) ==
    LET cosv == Clamp(FDiv(FDiv(raw, NInt(n1), rnd), NInt(n2), rnd), -1, 1)
        theta == Acos(cosv)
        sinv == Sin(theta)
    IN  NDiv(NMul(NMul(NAdd(NMul(NSub(NPi, theta), cosv), sinv), NInt(n1)), NInt(n2)), NPi)

\* the documented chain of LaplaceKernelSphere for one entry: divide by both
\* norms, clamp, negate and add 1, power gamma, times alpha, exponentiate,
\* times both norms
DocumentedLaplace(raw, n1, n2, rnd) ==
    LET cosv == Clamp(FDiv(FDiv(raw, NInt(n1), rnd), NInt(n2), rnd), -1, 1)
        base == NAdd(NNeg(cosv), NInt(1))
    IN  NMul(NMul(Exp(NMul(Pow(base, NInt(kernel.gamma)), NInt(kernel.alpha))), NInt(n1)),
             NInt(n2))

\* C11: _finalize of ArcCosineKernel and of LaplaceKernelSphere leaves in
\* the block given to it, entry by entry, the value of the documented chain
\* of operations applied in the documented order to the raw block and the
\* norms of _prepare, and returns that same block.
C11_FinalizeDocumentedOrder ==
    (op = "_finalize" /\ kernel.tag \in {"ArcCosine", "LaplaceSphere"}) =>
        /\ err = "none"
        /\ ret = blk.out
        /\ Rows(blk.out) = Len(blk.X1)
        /\ \A i \in 1..Len(blk.X1) :
            /\ Len(blk.out[i]) = Len(blk.X2)
            /\ \A j \in 1..Len(blk.X2) :
                NumEq(blk.out[i][j],
                      IF kernel.tag = "ArcCosine"
                      THEN DocumentedArcCosine(RawBlock[i][j], blk.aux.n1[i], blk.aux.n2[j],
                                               args.rnd)
                      ELSE DocumentedLaplace(RawBlock[i][j], blk.aux.n1[i], blk.aux.n2[j],
                                             args.rnd))

\* _finalize of ArcCosineKernel ran on a block holding a cosine that the
\* division rounded beyond 1 and the clamp brought back
C11_FinalizedRoundedBlock ==
    /\ op = "_finalize" /\ kernel.tag = "ArcCosine" /\ err = "none"
    /\ args.rnd = 1
    /\ \E i \in 1..Len(blk.X1), j \in 1..Len(blk.X2) :
        RawBlock[i][j] = NInt(blk.aux.n1[i] * blk.aux.n2[j])
    /\ acosIn = {NInt(1)}
    /\ ret = blk.out

\* C12: after _apply of ArcCosineKernel or LaplaceKernelSphere the buffer
\* the caller supplied holds exactly the raw block of the operands, whatever
\* it held before the call.
C12_ApplyOverwrites ==
    (op = "_apply" /\ kernel.tag \in {"ArcCosine", "LaplaceSphere"}) =>
        (err = "none" /\ MatEq(blk.out, RawBlock))

\* _apply ran on a buffer that held ones and left the raw block plus one in
\* every entry
C12_ApplyAccumulated ==
    /\ op = "_apply" /\ kernel.tag \in {"ArcCosine", "LaplaceSphere"} /\ err = "none"
    /\ blk.fill = 1
    /\ \A i \in 1..Len(blk.X1), j \in 1..Len(blk.X2) :
        NumEq(blk.out[i][j], NAdd(RawBlock[i][j], NInt(1)))

(***************************************************************************)
(* Properties of the script.                                               *)
(***************************************************************************)
\* C13: the mode requested for a run decides the solver: with --mode direct
\* the run fits a DirectKernelSolver, with --mode falkon the Falkon solver,
\* and with any other value it raises ValueError and fits no model (for
\* kernel arguments fit_model accepts).
C13_ModeDecidesSolver ==
    (/\ script.name = "main"
     /\ \/ script.args.kernel = "spherical-laplace"
        \/ script.args.kernel = "arccosine" /\ script.args.decay <= 0) =>
        /\ script.args.mode = "direct" =>
              (script.err = "none" /\ script.ret.model = "DirectKernelSolver")
        /\ script.args.mode = "falkon" =>
              (script.err = "none" /\ script.ret.model = "Falkon")
        /\ script.args.mode \notin {"direct", "falkon"} =>
              (script.err = "ValueError" /\ script.ret.model = "none")

\* a run with --mode direct ended in the import error and fitted nothing;
\* main itself, given the same arguments, asks fit_model for the Falkon
\* solver
C13_DirectRunFitsNoDirectSolver ==
    /\ script.name = "main"
    /\ script.args = [mode |-> "direct", kernel |-> "arccosine", decay |-> -1]
    /\ script.err = "ImportError" /\ script.ret.model = "none"
    /\ main(script.args).model = "Falkon"

\* C14: the kernel family has a LaplaceKernelSphereDecay variant, and a run
\* with kernel type spherical-laplace builds it when decay > 0 and
\* LaplaceKernelSphere when decay <= 0.
C14_DecayVariantBuilt ==
    (/\ script.name = "main"
     /\ script.args.kernel = "spherical-laplace"
     /\ script.args.mode = "falkon") =>
        /\ "LaplaceKernelSphereDecay" \in falkon_kernels_module
        /\ script.err = "none"
        /\ script.ret.kernel = IF script.args.decay > 0 THEN "LaplaceKernelSphereDecay"
                               ELSE "LaplaceKernelSphere"

\* a run with kernel type spherical-laplace and a positive decay ended in
\* the import error, no kernel built
C14_DecayVariantMissing ==
    /\ script.name = "main"
    /\ script.args = [mode |-> "falkon", kernel |-> "spherical-laplace", decay |-> 1]
    /\ script.err = "ImportError" /\ script.ret.kernel = "none"
    /\ "LaplaceKernelSphereDecay" \notin falkon_kernels_module

\* the rows of a sequence of slices, in order
RECURSIVE Flat(_)
Flat(ss) == IF ss = <<>> THEN <<>> ELSE Head(ss) \o Flat(Tail(ss))

\* C18: eval_grid with nchunks > 1 gives what it gives with nchunks = 1,
\* for every number of grid points and every nchunks: its slices hold every
\* grid point once, in the order of the grid, and the outcome is that of a
\* single predict on the whole grid.
C18_ChunkedEqualsWhole ==
    (script.name = "eval_grid" /\ script.args.nchunks > 1) =>
        /\ Flat(Slices(script.args.xgrid, script.args.nchunks)) = script.args.xgrid
        /\ \E whole \in {eval_grid(solver, script.args.xgrid, 1, script.args.rnd)} :
            /\ script.err = whole.err
            /\ VecEq(script.ret, whole.ret)

\* eval_grid over more chunks than grid points raised on the empty slice,
\* on a model whose predict of the whole grid returns
C18_EmptySliceRaises ==
    /\ script.name = "eval_grid"
    /\ script.args.nchunks > Len(script.args.xgrid)
    /\ Flat(Slices(script.args.xgrid, script.args.nchunks)) = script.args.xgrid
    /\ script.err = "RuntimeError"
    /\ eval_grid(solver, script.args.xgrid, 1, script.args.rnd).err = "none"

(***************************************************************************)
(* Properties of the reference kernels.                                    *)
(***************************************************************************)
\* C15: on every pair of inputs, direct_kernel of a NeuralTangentKernel
\* with variance 0 and k_ntk with variance 0 both give the values of
\* k_arccos, the values of ArcCosineKernel.
C15_ZeroVarianceIsArcCosine ==
    (/\ op = "direct_kernel" /\ err = "none"
     /\ kernel.tag = "NeuralTangent" /\ VarianceIsScalar(kernel) /\ kernel.variance.val = 0) =>
        \E K \in {k_arccos(args.X1, args.X2, args.rnd)} :
            /\ MatEq(ret, K)
            /\ MatEq(k_ntk(args.X1, args.X2, kernel.variance.val, args.rnd), K)
            /\ MatEq(ArcCosine_direct_kernel(args.X1, args.X2, args.rnd), K)

\* direct_kernel of a NeuralTangentKernel with variance 0 on two points at
\* angle 0, where the term the variance multiplies is not zero
C15_ZeroVarianceAligned ==
    /\ op = "direct_kernel" /\ err = "none"
    /\ kernel.tag = "NeuralTangent" /\ VarianceIsScalar(kernel) /\ kernel.variance.val = 0
    /\ Dim(args.X1) = Dim(args.X2)
    /\ BDot(args.X1[1], args.X2[1]) > 0
    /\ ~NumEq(k_ntk(args.X1, args.X2, 1, args.rnd)[1][1], ret[1][1])

\* C16: for every kernel variant and every point set X, direct_kernel(X, X)
\* is a square matrix whose entry (i, j) equals its entry (j, i).
C16_SelfKernelSymmetric ==
    (op = "direct_kernel" /\ err = "none" /\ args.X1 = args.X2) =>
        /\ Rows(ret) = Len(args.X1)
        /\ \A i \in 1..Len(args.X1) :
            /\ Len(ret[i]) = Len(args.X1)
            /\ \A j \in 1..Len(args.X1) : NumEq(ret[i][j], ret[j][i])

\* direct_kernel(X, X) for two points of different norms at a right angle
C16_TwoPointSelfKernel ==
    /\ op = "direct_kernel" /\ err = "none" /\ args.X1 = args.X2
    /\ Len(args.X1) = 2
    /\ Norm(args.X1[1]) # Norm(args.X1[2])
    /\ BDot(args.X1[1], args.X1[2]) = 0
    /\ ~NumEq(ret[1][2], NInt(0))

\* the threads of a launch whose global index is (I, J)
ThreadsAt(L, I, J) ==
    {t \in (0..(L.grid[1] - 1)) \X (0..(L.block[1] - 1))
           \X (0..(L.grid[2] - 1)) \X (0..(L.block[2] - 1)) :
        /\ t[1] * L.block[1] + t[2] = I
        /\ t[3] * L.block[2] + t[4] = J}

\* C17: NeuralTangentKernel._apply launches stable_kernel with a thread
\* block of 16 x 16 and a grid of ceil(N / 16) x ceil(M / 16) blocks, so
\* that every cell (I, J) of the N x M block is written by exactly one
\* thread and none outside it.
C17_LaunchGeometry ==
    (op = "_apply" /\ kernel.tag = "NeuralTangent" /\ err = "none") =>
        \E L \in {Launch(Len(blk.X1), Len(blk.X2))} :
            /\ L.block = <<ThreadsPerDim, ThreadsPerDim>>
            /\ L.grid = <<(Len(blk.X1) + ThreadsPerDim - 1) \div ThreadsPerDim,
                          (Len(blk.X2) + ThreadsPerDim - 1) \div ThreadsPerDim>>
            /\ \A I \in 0..(Len(blk.X1) - 1), J \in 0..(Len(blk.X2) - 1) :
                Cardinality(ThreadsAt(L, I, J)) = 1
            /\ Rows(blk.out) = Len(blk.X1) /\ Cols(blk.out) = Len(blk.X2)

\* _apply of NeuralTangentKernel ran with the device capability: the launch
\* had a grid of 16 x 16 blocks of ceil(N / 16) x ceil(M / 16) threads each
C17_GridAndBlockSwapped ==
    /\ op = "_apply" /\ kernel.tag = "NeuralTangent" /\ err = "none"
    /\ Launch(Len(blk.X1), Len(blk.X2)).grid = <<ThreadsPerDim, ThreadsPerDim>>
    /\ Launch(Len(blk.X1), Len(blk.X2)).block = <<LaunchBlocks(Len(blk.X1)),
                                                  LaunchBlocks(Len(blk.X2))>>
    /\ Launch(Len(blk.X1), Len(blk.X2)).block # <<ThreadsPerDim, ThreadsPerDim>>
    /\ \A I \in 0..(Len(blk.X1) - 1), J \in 0..(Len(blk.X2) - 1) :
        Cardinality(ThreadsAt(Launch(Len(blk.X1), Len(blk.X2)), I, J)) = 1

(***************************************************************************)
(* Consistency of the solver's state.                                      *)
(***************************************************************************)
\* C19: in every state of a DirectKernelSolver, x_ and alpha_ are both None
\* or both come from the same completed fit call, also after a fit call
\* that raised.
C19_FitStateConsistent ==
    \/ solver.x_ = <<>> /\ solver.alpha_ = <<>>
    \/ /\ solver.x_ # <<>> /\ solver.alpha_ # <<>>
       /\ solver.x_ = fitted.x
       /\ VecEq(MatVec(Regularized(direct_kernel(solver.kernel, fitted.x, fitted.x, 0),
                                   solver.penalty),
                       solver.alpha_),
                NumVec(fitted.y))

\* a fit call raised in the inverse after a fit that completed, and predict
\* returned the product of the kernel on the new training points with the
\* coefficients of the earlier fit
C19_PredictMixesFits ==
    /\ call.name = "predict" /\ call.err = "none" /\ call.ret # <<>>
    /\ fitted.last = "raised" /\ fitted.x # <<>>
    /\ solver.x_ # fitted.x
    /\ VecEq(MatVec(Regularized(direct_kernel(solver.kernel, fitted.x, fitted.x, 0),
                                solver.penalty),
                    solver.alpha_),
             NumVec(fitted.y))
=============================================================================
